---- MODULE Spec2Model ----
(***************************************************************************)
(* Model of fuzzy_grouping (src/main.py): the incremental fuzzy            *)
(* de-duplication of institution names.  One pass over the distinct names  *)
(* of a column; every name after the first is compared, by the similarity  *)
(* oracle process.extractOne, with the keys of the mapping built so far,   *)
(* and is either grouped under the canonical name of its best match or     *)
(* under itself.  The mapping is then applied back onto the column.        *)
(***************************************************************************)
EXTENDS Integers, Sequences, FiniteSets, TLC

\* ---------------------------------------------------------------- bounds
\* Number of different institution names that may occur in the column.
NumNames == 3
\* Largest number of rows of the column.
MaxRows == 3

\* The threshold parameter's default value.
DefaultThreshold == 89

Names == 1..NumNames
\* Value pandas' Series.map yields for a key the dictionary lacks.
NaN == 0

\* Thresholds the pass is run with, and the scores the scorer may return: for
\* each threshold there is a score below it, equal to it and above it.
Thresholds == {50, DefaultThreshold}
Scores == {50, DefaultThreshold, 100}

\* The scorer is consulted for pairs of different names only (the names of a
\* pass are distinct).  Within one pass each pair is scored in one direction
\* only (later name against earlier name), so a table over unordered pairs
\* covers every scorer.
Pairs == {p \in SUBSET Names : Cardinality(p) = 2}

VARIABLES
    sim,            \* fuzz.token_sort_ratio as a table: pair of names -> score
    column,         \* dataframe[column_name]: the rows' institution names
    threshold,      \* the threshold parameter
    names,          \* dataframe[column_name].unique()
    i,              \* number of names the for loop has processed
    grouped_names,  \* dict: original name -> grouped name
    calls,          \* history: the calls of process.extractOne so far
    grouped_col,    \* dataframe['Grouped Institution'] (<<>> until assigned)
    pc,             \* "loop", "done" or "error" (an exception was raised)
    prev            \* history: <<>>, or the outcome of an earlier call of
                    \* fuzzy_grouping on the same table

vars == <<sim, column, threshold, names, i, grouped_names, calls,
          grouped_col, pc, prev>>

\* ------------------------------------------------------- pure operators
Range(s) == {s[k] : k \in 1..Len(s)}

\* pandas' Series.unique(): the distinct values in order of first occurrence.
RECURSIVE Unique(_)
Unique(s) ==
    IF s = <<>> THEN <<>>
    ELSE LET front == Unique(SubSeq(s, 1, Len(s) - 1))
             last  == s[Len(s)]
         IN  IF last \in Range(front) THEN front ELSE Append(front, last)

\* Position of a name in a sequence of distinct names.
IndexOf(s, n) == CHOOSE k \in 1..Len(s) : s[k] = n

\* The empty dictionary.
EmptyDict == [k \in {} |-> NaN]

IsEmptyNever(g) == FALSE
\* `if grouped_names:` is false for the empty dictionary only.
IsEmpty(g) == DOMAIN g = {}

ChoicesCanonicalOnly(g) == {k \in DOMAIN g : g[k] = k}
\* list(grouped_names.keys()): the choices handed to extractOne.
Choices(g) == DOMAIN g

\* fuzz.token_sort_ratio(name, choice)
Score(s, name, choice) == s[{name, choice}]

\* process.extractOne(name, choices, scorer): a choice of the highest score,
\* with that score; which one among equally scored choices is left open.
\* For no choices at all extractOne returns None (here: no result).
ExtractOne(s, name, choices) ==
    {[match |-> m, score |-> Score(s, name, m)] : m \in
        {c \in choices : \A d \in choices : Score(s, name, d) <= Score(s, name, c)}}

MergesAtThreshold(score, t) == score >= t
\* `if score > threshold:`
Merges(score, t) == score > t

CanonicalOfIsMatch(g, match) == match
\* grouped_names[match]
CanonicalOf(g, match) == g[match]

InsertRenaming(g, n, v) ==
    [k \in DOMAIN g \cup {n} |-> IF k = n \/ (v # n /\ g[k] = v) THEN n ELSE g[k]]
InsertCanonicalOnly(g, n, v) ==
    IF v = n THEN [k \in DOMAIN g \cup {n} |-> IF k = n THEN v ELSE g[k]] ELSE g
\* grouped_names[n] = v
Insert(g, n, v) == [k \in DOMAIN g \cup {n} |-> IF k = n THEN v ELSE g[k]]

\* dataframe[column_name].map(grouped_names)
Map(col, g) == [r \in 1..Len(col) |-> IF col[r] \in DOMAIN g THEN g[col[r]] ELSE NaN]

\* Derived notions used by the properties.
Canonicals(g) == {g[k] : k \in DOMAIN g}
NumClusters(g) == Cardinality(Canonicals(g))
Merged(g) == {k \in DOMAIN g : g[k] # k}
Cluster(g, c) == {k \in DOMAIN g : g[k] = c}

\* ------------------------------------------------------------- behaviour
Columns == UNION {[1..n -> Names] : n \in 0..MaxRows}

Init ==
    /\ sim \in [Pairs -> Scores]
    /\ column \in Columns
    /\ threshold \in Thresholds
    /\ names = Unique(column)
    /\ i = 0
    /\ grouped_names = EmptyDict
    /\ calls = <<>>
    /\ grouped_col = <<>>
    /\ pc = "loop"
    /\ prev = <<>>

\* An iteration of the loop with the dictionary still empty: the name is
\* grouped under itself, and extractOne is not called.
FirstName ==
    /\ pc = "loop"
    /\ i < Len(names)
    /\ IsEmpty(grouped_names)
    /\ grouped_names' = Insert(grouped_names, names[i + 1], names[i + 1])
    /\ i' = i + 1
    /\ UNCHANGED <<sim, column, threshold, names, calls, grouped_col, pc, prev>>

\* An iteration of the loop with a non-empty dictionary: extractOne is called
\* with the keys of the dictionary; unpacking None, or looking up a key the
\* dictionary lacks, raises.
MatchName ==
    /\ pc = "loop"
    /\ i < Len(names)
    /\ ~IsEmpty(grouped_names)
    /\ LET name    == names[i + 1]
           choices == Choices(grouped_names)
           results == ExtractOne(sim, name, choices)
       IN  IF results = {}
           THEN /\ calls' = Append(calls, [name |-> name, choices |-> choices,
                                          match |-> NaN, score |-> 0])
                /\ pc' = "error"
                /\ UNCHANGED <<i, grouped_names>>
           ELSE \E r \in results :
                /\ calls' = Append(calls, [name |-> name, choices |-> choices,
                                          match |-> r.match, score |-> r.score])
                /\ IF Merges(r.score, threshold)
                   THEN IF r.match \in DOMAIN grouped_names
                        THEN /\ grouped_names' =
                                    Insert(grouped_names, name,
                                           CanonicalOf(grouped_names, r.match))
                             /\ i' = i + 1
                             /\ pc' = pc
                        ELSE /\ pc' = "error"
                             /\ UNCHANGED <<i, grouped_names>>
                   ELSE /\ grouped_names' = Insert(grouped_names, name, name)
                        /\ i' = i + 1
                        /\ pc' = pc
    /\ UNCHANGED <<sim, column, threshold, names, grouped_col, prev>>

\* After the loop the mapping is applied to the column and the call returns.
Apply ==
    /\ pc = "loop"
    /\ i = Len(names)
    /\ grouped_col' = Map(column, grouped_names)
    /\ pc' = "done"
    /\ UNCHANGED <<sim, column, threshold, names, i, grouped_names, calls, prev>>

Next == FirstName \/ MatchName \/ Apply

Spec == Init /\ [][Next]_vars

\* ------------------------------------------- repeated calls (comparisons)
\* The outcome of the call that has just returned.
Outcome == [column |-> column, threshold |-> threshold,
            grouped_names |-> grouped_names]

\* The rows of col with two neighbouring rows exchanged: the orders that
\* differ from col in one step.
Reorderings(col) ==
    {[r \in 1..Len(col) |-> IF r = k THEN col[k + 1]
                            ELSE IF r = k + 1 THEN col[k] ELSE col[r]] :
        k \in {j \in 1..(Len(col) - 1) : col[j] # col[j + 1]}}

\* fuzzy_grouping is called again on the same column with a higher threshold.
RerunRaisedThreshold ==
    /\ pc = "done"
    /\ prev = <<>>
    /\ \E t \in Thresholds :
        /\ t > threshold
        /\ threshold' = t
    /\ prev' = <<Outcome>>
    /\ i' = 0
    /\ grouped_names' = EmptyDict
    /\ calls' = <<>>
    /\ grouped_col' = <<>>
    /\ pc' = "loop"
    /\ UNCHANGED <<sim, column, names>>

\* fuzzy_grouping is called again, with the same threshold, on the same rows
\* in another order (two neighbouring rows exchanged).
RerunReordered ==
    /\ pc = "done"
    /\ prev = <<>>
    /\ \E c \in Reorderings(column) :
        /\ column' = c
        /\ names' = Unique(c)
    /\ prev' = <<Outcome>>
    /\ i' = 0
    /\ grouped_names' = EmptyDict
    /\ calls' = <<>>
    /\ grouped_col' = <<>>
    /\ pc' = "loop"
    /\ UNCHANGED <<sim, threshold>>

NextMono == Next \/ RerunRaisedThreshold
SpecMono == Init /\ [][NextMono]_vars

NextOrder == Next \/ RerunReordered
SpecOrder == Init /\ [][NextOrder]_vars

\* ------------------------------------------------------------ properties
\* The names the loop has processed before its k-th call of extractOne.
Processed(k) == {names[j] : j \in 1..k}
Call(k) == calls[k]
CallNums == 1..Len(calls)
MaxScore(name, choices) ==
    CHOOSE v \in Scores :
        /\ \E c \in choices : Score(sim, name, c) = v
        /\ \A c \in choices : Score(sim, name, c) <= v

\* C1 (as stated): the choices handed to extractOne are canonical names only,
\* that is names grouped under themselves; a name that was merged into
\* another name's group is never among the choices of a later call.
C1_ChoicesAreCanonicalOnly ==
    \A k \in CallNums : \A c \in Call(k).choices : grouped_names[c] = c

\* C1 (amended): the k-th call of extractOne is made for the (k+1)-th name and
\* its choices are all k names processed before it, merged names included.
C1_ChoicesAreAllProcessedNames ==
    \A k \in CallNums :
        /\ Call(k).name = names[k + 1]
        /\ Call(k).choices = Processed(k)

\* A call whose choices hold a name that was merged into another group.
C1_Witness ==
    \E k \in CallNums : \E c \in Call(k).choices : grouped_names[c] # c

\* C2 (as stated): a name grouped under another name c scored above the
\* threshold against c itself.
C2_NoTransitiveDrift ==
    \A n \in DOMAIN grouped_names :
        grouped_names[n] # n => Score(sim, n, grouped_names[n]) > threshold

\* C2 (amended): a name grouped under another name c scored above the
\* threshold against its best match among all names processed before it, and
\* that match is a member of c's group, not necessarily c.
C2_MergedThroughBestMatch ==
    \A k \in CallNums :
        LET n == Call(k).name
        IN  (n \in DOMAIN grouped_names /\ grouped_names[n] # n) =>
                /\ Call(k).match \in Processed(k)
                /\ grouped_names[Call(k).match] = grouped_names[n]
                /\ Score(sim, n, Call(k).match) > threshold
                /\ \A c \in Processed(k) :
                        Score(sim, n, c) <= Score(sim, n, Call(k).match)

\* A name that joined a group through a non-canonical member although its
\* score against the group's canonical name does not exceed the threshold.
C2_Witness ==
    \E k \in CallNums :
        LET n == Call(k).name
        IN  /\ n \in DOMAIN grouped_names
            /\ grouped_names[n] # n
            /\ Call(k).match # grouped_names[n]
            /\ Score(sim, n, grouped_names[n]) <= threshold

\* C3: for every name after the first, with (match, score) the answer of
\* extractOne: the score is the highest score among the choices; a score above
\* the threshold groups the name under the canonical name of match; any other
\* score, one equal to the threshold included, groups the name under itself,
\* as a new canonical name.
C3_ThresholdDecides ==
    /\ pc # "error"
    /\ i >= 1 => Len(calls) = i - 1
    /\ \A k \in CallNums :
        LET n == Call(k).name
        IN  /\ n = names[k + 1]
            /\ Call(k).score = MaxScore(n, Call(k).choices)
            /\ Call(k).score = Score(sim, n, Call(k).match)
            /\ IF Call(k).score > threshold
               THEN grouped_names[n] = grouped_names[Call(k).match]
               ELSE grouped_names[n] = n /\ n \in Canonicals(grouped_names)

\* One name scored exactly the threshold and was grouped under itself, a
\* later one scored above it and was merged.
C3_Witness ==
    \E k, l \in CallNums :
        /\ Call(k).score = threshold
        /\ grouped_names[Call(k).name] = Call(k).name
        /\ Call(l).score > threshold
        /\ grouped_names[Call(l).name] # Call(l).name

\* C4: the same column grouped with a threshold t1 and then with a higher
\* threshold t2: every name merged under t2 was merged under t1, and t2 forms
\* at least as many groups as t1.
C4_ThresholdMonotone ==
    (pc = "done" /\ prev # <<>>) =>
        /\ prev[1].column = column
        /\ prev[1].threshold < threshold
        /\ Merged(grouped_names) \subseteq Merged(prev[1].grouped_names)
        /\ NumClusters(grouped_names) >= NumClusters(prev[1].grouped_names)

\* Both passes merged something, and the higher threshold merged less.
C4_Witness ==
    /\ pc = "done"
    /\ prev # <<>>
    /\ Merged(grouped_names) # {}
    /\ Merged(grouped_names) # Merged(prev[1].grouped_names)
    /\ NumClusters(grouped_names) > NumClusters(prev[1].grouped_names)

\* C5: when the pass has ended the keys of the mapping are exactly the
\* distinct names of the column, one key per name, and every row of the
\* column resolves to the one canonical name of its institution.
C5_Totality ==
    pc = "done" =>
        /\ DOMAIN grouped_names = Range(column)
        /\ Range(names) = Range(column)
        /\ Cardinality(Range(names)) = Len(names)
        /\ Len(grouped_col) = Len(column)
        /\ \A r \in 1..Len(column) :
            /\ grouped_col[r] # NaN
            /\ grouped_col[r] = grouped_names[column[r]]

\* A finished pass over a column with a repeated name and a merged name.
C5_Witness ==
    /\ pc = "done"
    /\ Len(names) < Len(column)
    /\ Merged(grouped_names) # {}

\* C6: every iteration of the loop inserts exactly one entry, for the current
\* name, and leaves every earlier entry as it is; no step removes or
\* reassigns an entry, so names that share (or do not share) a canonical name
\* keep doing so.
C6_MapGrowsMonotonically ==
    [][/\ DOMAIN grouped_names \subseteq DOMAIN grouped_names'
       /\ \A k \in DOMAIN grouped_names : grouped_names'[k] = grouped_names[k]
       /\ \A a, b \in DOMAIN grouped_names :
            (grouped_names[a] = grouped_names[b]) <=>
                (grouped_names'[a] = grouped_names'[b])
       /\ i' # i =>
            /\ i' = i + 1
            /\ names[i'] \notin DOMAIN grouped_names
            /\ DOMAIN grouped_names' = DOMAIN grouped_names \cup {names[i']}
       /\ i' = i => grouped_names' = grouped_names]_vars

\* A name has just joined a group that already had two members.
C6_Witness ==
    /\ i = 3
    /\ grouped_names[names[3]] # names[3]
    /\ Cardinality(Cluster(grouped_names, grouped_names[names[3]])) = 3

\* C7: if no score of the similarity function exceeds the threshold, every
\* name is grouped under itself and there are as many groups as names.
C7_NoMergeWithoutHighScore ==
    (\A p \in Pairs : sim[p] <= threshold) =>
        /\ \A n \in DOMAIN grouped_names : grouped_names[n] = n
        /\ NumClusters(grouped_names) = i
        /\ pc = "done" => NumClusters(grouped_names) = Len(names)

\* A finished pass over several names in which a score equal to the threshold
\* was returned and none above it exists.
C7_Witness ==
    /\ pc = "done"
    /\ Len(names) >= 2
    /\ \A p \in Pairs : sim[p] <= threshold
    /\ \E k \in CallNums : Call(k).score = threshold

\* C8: extractOne is never called with no choices: an empty column makes no
\* call and yields the empty mapping, and the first name of a non-empty column
\* is grouped under itself without a call.
C8_NoCallOnEmptyChoices ==
    /\ \A k \in CallNums : Call(k).choices # {}
    /\ pc # "error"
    /\ i = 0 => calls = <<>> /\ grouped_names = EmptyDict
    /\ names = <<>> => calls = <<>> /\ grouped_names = EmptyDict
    /\ i >= 1 =>
        /\ grouped_names[names[1]] = names[1]
        /\ Len(calls) = i - 1
    /\ (pc = "done" /\ Len(names) = 1) =>
        grouped_names = [n \in {names[1]} |-> n]

\* A finished pass over a column of several rows that all hold one name.
C8_Witness ==
    /\ pc = "done"
    /\ Len(column) >= 2
    /\ Len(names) = 1
    /\ calls = <<>>
    /\ grouped_names[names[1]] = names[1]

\* C9: order sensitivity happens.  With threshold 50 and scores 89 for names
\* 1 and 2, 100 for names 2 and 3, 50 for names 1 and 3, the order 1, 2, 3
\* puts all three names in the group of 1, and the order 1, 3, 2 yields the
\* groups {1} and {2, 3} with canonical name 3.
C9_Fixture ==
    /\ threshold = 50
    /\ sim[{1, 2}] = 89
    /\ sim[{2, 3}] = 100
    /\ sim[{1, 3}] = 50
    /\ pc = "done"
    /\ prev # <<>>
    /\ prev[1].column = <<1, 2, 3>>
    /\ column = <<1, 3, 2>>

C9_OrderSensitive ==
    C9_Fixture =>
        /\ prev[1].grouped_names = [n \in {1, 2, 3} |-> 1]
        /\ grouped_names = [n \in {1, 2, 3} |-> IF n = 1 THEN 1 ELSE 3]
        /\ Canonicals(grouped_names) # Canonicals(prev[1].grouped_names)
        /\ Cluster(grouped_names, 1) # Cluster(prev[1].grouped_names, 1)

\* Two orders of one column with different groups and canonical names.
C9_Witness ==
    /\ C9_Fixture
    /\ DOMAIN grouped_names = DOMAIN prev[1].grouped_names
    /\ grouped_names # prev[1].grouped_names

\* C10: every value of the mapping is a key grouped under itself, processed
\* no later than the names grouped under it; looking up the canonical name of
\* the match never fails.
C10_ValuesAreCanonical ==
    /\ pc # "error"
    /\ \A n \in DOMAIN grouped_names :
        /\ grouped_names[n] \in DOMAIN grouped_names
        /\ grouped_names[grouped_names[n]] = grouped_names[n]
        /\ IndexOf(names, grouped_names[n]) <= IndexOf(names, n)

\* A name was merged through a match that is not itself canonical.
C10_Witness ==
    \E k \in CallNums :
        /\ Call(k).name \in DOMAIN grouped_names
        /\ grouped_names[Call(k).name] # Call(k).name
        /\ grouped_names[Call(k).match] # Call(k).match

====
